---- MODULE Spec2Model ----
(***************************************************************************)
(* AutoQASM glue of amazon-braket-sdk-python:                              *)
(*   - braket/experimental/autoqasm/parameters.py  (class TypedParameter)  *)
(*   - braket/experimental/autoqasm/types/__init__.py  (the types facade)  *)
(*   - test/unit_tests/.../test_aq_gates.py  (serialization goldens)       *)
(*                                                                         *)
(* Three specifications share the module:                                  *)
(*   Spec        the TypedParameter class: constructor statements, the     *)
(*               type property, the inherited name property.  It is the    *)
(*               class statement of parameters.py taken by itself: the     *)
(*               names FloatVar and IntVar of line 40 denote the two       *)
(*               variable-type marker classes.  Whether the module that    *)
(*               holds the class can be imported is SpecFacade's matter.   *)
(*   SpecFacade  module loading: the statements of types/__init__.py and   *)
(*               of parameters.py, and from-imports against the facade.    *)
(*   SpecGates   the program builder behind h, cnot, measure and to_ir,    *)
(*               whose code is outside src/ and is modelled from the       *)
(*               specification and the tests' goldens.                     *)
(***************************************************************************)
EXTENDS Integers, Sequences, FiniteSets, TLC

VARIABLES
    heap,       \* constructed TypedParameter objects, in construction order
    frame,      \* activation of TypedParameter.__init__, or NoFrame
    call,       \* arguments of the latest constructor call
    result,     \* what the caller got last: a reference, an exception, a read
    trace,      \* statements of __init__ executed by the latest call
    facadeNs,   \* names bound in braket.experimental.autoqasm.types
    facadePc,   \* next statement of types/__init__.py (index in FacadeBody)
    paramsNs,   \* names bound in braket.experimental.autoqasm.parameters
    paramsPc,   \* next statement of parameters.py (index in ParametersBody)
    paramsState,\* "unloaded", "loading", "loaded" or "ImportError"
    request,    \* names of the latest client from-import on the facade
    imported,   \* outcome of the latest from-import on the facade
    mode,       \* how the program is built: "none", "function" or "context"
    calls,      \* gate invocations made so far, in order
    stmts,      \* OpenQASM statements emitted so far
    bitCount,   \* number of auto-allocated measurement result variables
    ir          \* lines returned by to_ir, or <<>> before serialization

paramVars == <<heap, frame, call, result, trace>>
facadeVars == <<facadeNs, facadePc, paramsNs, paramsPc, paramsState, request, imported>>
gateVars == <<mode, calls, stmts, bitCount, ir>>
vars == <<heap, frame, call, result, trace, facadeNs, facadePc, paramsNs, paramsPc,
          paramsState, request, imported, mode, calls, stmts, bitCount, ir>>

(***************************************************************************)
(* Bounds                                                                  *)
(***************************************************************************)
MaxObjects == 2
MaxGates == 3
MaxQubit == 1
MaxRequest == 2

(***************************************************************************)
(* Python values that can be passed as the `type` argument                 *)
(***************************************************************************)
\* A class object; classes compare by identity, so two are equal iff same name.
Class(n) == [kind |-> "class", name |-> n]
\* A str instance.
StrValue(s) == [kind |-> "str", name |-> s]
None == [kind |-> "NoneType", name |-> "None"]
\* The argument was not passed at the call site.
Omitted == [kind |-> "omitted", name |-> ""]
float == Class("float")
int == Class("int")
FloatVar == Class("FloatVar")
IntVar == Class("IntVar")

\* The values the model passes as `type`: the four of the list, and classes and
\* non-class values outside it (bool is a subclass of int, "float" a string).
TypeValues ==
    {float, int, FloatVar, IntVar,
     Class("str"), Class("bool"), Class("complex"), None, StrValue("float")}

\* Names as sequences of code points: "t1" and the non-ASCII "θ" (U+03B8).
Names == {<<116, 49>>, <<952>>}

\* Runtime classes of self: TypedParameter and a subclass inheriting __init__.
Classes == {"TypedParameter", "AngleParameter"}

NoFrame == [status |-> "none"]
NoCall == [cls |-> "", name |-> <<>>, arg |-> Omitted, nobj |-> 0]
NoResult == [op |-> "none", kind |-> "none"]

(***************************************************************************)
(* TypedParameter.__init__                                                 *)
(***************************************************************************)
\* Mutant: the default is None, as the annotation `type | None` suggests.
DefaultTypeNone == None

\* def __init__(self, name: str, type: type | None = float)
DefaultType == float

\* Binding of the `type` parameter at the call.
BindType(arg) == IF arg = Omitted THEN DefaultType ELSE arg

\* Mutant: IntVar is missing from the list.
SupportedTypesNoIntVar == <<float, int, FloatVar>>

\* [float, int, FloatVar, IntVar]
SupportedTypes == <<float, int, FloatVar, IntVar>>

\* Python's direct base classes, as far as the values of TypeValues have any.
Bases(v) == IF v = Class("bool") THEN {int} ELSE {}

\* Mutant: the test is issubclass-like, so a subclass of a listed class passes.
InListOrSubclass(v, list) ==
    \E i \in 1..Len(list) : v = list[i] \/ list[i] \in Bases(v)

\* `v in list`: some element is identical or equal to v.
InList(v, list) == \E i \in 1..Len(list) : v = list[i]

\* Mutant of the membership test of line 40.
SupportedOrSubclass(v) == InListOrSubclass(v, SupportedTypes)

\* type in [float, int, FloatVar, IntVar]
Supported(v) == InList(v, SupportedTypes)

\* str(v), as the f-string formats its fields.
Str(v) ==
    CASE v.kind = "class" -> "<class '" \o v.name \o "'>"
      [] v.kind = "NoneType" -> "None"
      [] OTHER -> v.name

\* Mutant: the class name is written into the message instead of read from self.
UnsupportedMessageFixedClass(cls, v) ==
    <<"Unsupported type for ", "TypedParameter", ": ", Str(v), ".">>

\* f"Unsupported type for {self.__class__.__name__}: {type}." as its literal
\* parts and formatted fields, in order.
UnsupportedMessage(cls, v) ==
    <<"Unsupported type for ", cls, ": ", Str(v), ".">>

\* Mutant: the base class is initialized before the type is validated.
BodySuperFirst == <<"super_init", "validate", "set_type">>

\* Mutant: the type field is set before the base class is initialized.
BodySuperLast == <<"validate", "set_type", "super_init">>

\* The statements of __init__ in program order (lines 40-41, 44, 45).
Body == <<"validate", "super_init", "set_type">>

\* Mutant: the name handed to the base class is reduced to its ASCII part.
SuperInitNameAscii(f) == SelectSeq(f.name, LAMBDA c : c < 128)

\* super().__init__(name=name): the name handed to the base class.
SuperInitName(f) == f.name

\* A fresh instance of class cls: its __dict__ holds no attribute yet.
NewObject(cls) == [cls |-> cls, dict |-> [a \in {} |-> None]]

\* self.<attr> = v
SetAttr(obj, attr, v) ==
    [obj EXCEPT !.dict = [a \in DOMAIN obj.dict \cup {attr} |->
                             IF a = attr THEN v ELSE obj.dict[a]]]

HasAttr(obj, attr) == attr \in DOMAIN obj.dict

\* FreeParameter.__init__(self, name): the base class keeps the name, and
\* FreeParameterExpression.__init__, which it calls, sets _type to its default
\* (the note above super().__init__: "FreeParameter doesn't accept a type, but
\* FreeParameterExpression does and sets it to a default value").
FreeParameterInit(obj, n) == SetAttr(SetAttr(obj, "_name", n), "_type", float)

\* FreeParameter.name
name(obj) == obj.dict["_name"]

\* TypedParameter.type: return self._type
type(obj) == obj.dict["_type"]

Running(stmt) ==
    /\ frame.status = "running"
    /\ frame.pc <= Len(Body)
    /\ Body[frame.pc] = stmt

\* TypedParameter(name, arg) or a subclass: a fresh self enters __init__.
Call(cls, n, arg) ==
    /\ frame = NoFrame
    /\ Len(heap) < MaxObjects
    /\ frame' = [status |-> "running", pc |-> 1, cls |-> cls, name |-> n,
                 type |-> BindType(arg),
                 self |-> NewObject(cls)]
    /\ call' = [cls |-> cls, name |-> n, arg |-> arg, nobj |-> Len(heap)]
    /\ result' = NoResult
    /\ trace' = <<>>
    /\ UNCHANGED <<heap, facadeVars, gateVars>>

\* if type not in [...]: raise ValueError(...)
Validate ==
    /\ Running("validate")
    /\ trace' = Append(trace, "validate")
    /\ IF Supported(frame.type)
       THEN /\ frame' = [frame EXCEPT !.pc = @ + 1]
            /\ UNCHANGED result
       ELSE /\ frame' = [frame EXCEPT !.status = "raised"]
            /\ result' = [op |-> "construct", kind |-> "raised", exc |-> "ValueError",
                          msg |-> UnsupportedMessage(frame.self.cls, frame.type)]
    /\ UNCHANGED <<heap, call, facadeVars, gateVars>>

\* super().__init__(name=name)
SuperInit ==
    /\ Running("super_init")
    /\ trace' = Append(trace, "super_init")
    /\ frame' = [frame EXCEPT !.pc = @ + 1,
                              !.self = FreeParameterInit(@, SuperInitName(frame))]
    /\ UNCHANGED <<heap, call, result, facadeVars, gateVars>>

\* self._type = type
SetType ==
    /\ Running("set_type")
    /\ trace' = Append(trace, "set_type")
    /\ frame' = [frame EXCEPT !.pc = @ + 1,
                              !.self = SetAttr(@, "_type", frame.type)]
    /\ UNCHANGED <<heap, call, result, facadeVars, gateVars>>

\* __init__ falls off its end: the caller receives the object.
Return ==
    /\ frame.status = "running"
    /\ frame.pc > Len(Body)
    /\ heap' = Append(heap, frame.self)
    /\ result' = [op |-> "construct", kind |-> "returned", ref |-> Len(heap) + 1]
    /\ frame' = NoFrame
    /\ UNCHANGED <<call, trace, facadeVars, gateVars>>

\* The exception leaves __init__: self is dropped, the caller gets no object.
Unwind ==
    /\ frame.status = "raised"
    /\ frame' = NoFrame
    /\ UNCHANGED <<heap, call, result, trace, facadeVars, gateVars>>

\* What reading a property gives the caller: the value of the attribute behind
\* it, or AttributeError when the instance has no such attribute.
ReadProperty(obj, prop, attr) ==
    IF HasAttr(obj, attr)
    THEN [op |-> "get", kind |-> "read", attr |-> prop, value |-> obj.dict[attr]]
    ELSE [op |-> "get", kind |-> "raised", exc |-> "AttributeError", msg |-> <<attr>>]

\* p.type on a constructed object
GetType(i) ==
    /\ frame = NoFrame
    /\ i \in 1..Len(heap)
    /\ result' = ReadProperty(heap[i], "type", "_type")
    /\ UNCHANGED <<heap, frame, call, trace, facadeVars, gateVars>>

\* p.name on a constructed object
GetName(i) ==
    /\ frame = NoFrame
    /\ i \in 1..Len(heap)
    /\ result' = ReadProperty(heap[i], "name", "_name")
    /\ UNCHANGED <<heap, frame, call, trace, facadeVars, gateVars>>

\* Mutant: the property has a setter that stores the value.
AssignTypeStores(i, v) ==
    /\ frame = NoFrame
    /\ i \in 1..Len(heap)
    /\ heap' = [heap EXCEPT ![i] = SetAttr(@, "_type", v)]
    /\ result' = [op |-> "set", kind |-> "stored"]
    /\ UNCHANGED <<frame, call, trace, facadeVars, gateVars>>

\* p.type = v: the property defines no setter, so the assignment raises
\* AttributeError and the object is left as it was.
AssignType(i, v) ==
    /\ frame = NoFrame
    /\ i \in 1..Len(heap)
    /\ result' = [op |-> "set", kind |-> "raised", exc |-> "AttributeError",
                  msg |-> <<"type">>]
    /\ UNCHANGED <<heap, frame, call, trace, facadeVars, gateVars>>

InitParams ==
    /\ heap = <<>>
    /\ frame = NoFrame
    /\ call = NoCall
    /\ result = NoResult
    /\ trace = <<>>

NextParams ==
    \/ \E cls \in Classes, n \in Names, arg \in TypeValues \cup {Omitted} :
          Call(cls, n, arg)
    \/ Validate
    \/ SuperInit
    \/ SetType
    \/ Return
    \/ Unwind
    \/ \E i \in 1..MaxObjects : GetType(i)
    \/ \E i \in 1..MaxObjects : GetName(i)
    \/ \E i \in 1..MaxObjects, v \in TypeValues : AssignType(i, v)

(***************************************************************************)
(* Module loading: types/__init__.py and parameters.py                     *)
(***************************************************************************)
FacadeModule == "braket.experimental.autoqasm.types"
FreeParameterModule == "braket.circuits.free_parameter"

\* The statements of types/__init__.py:
\*   from .py_to_oqpy import map_type, wrap_value
\*   from .types import is_qasm_type, qasm_range
FacadeBody ==
    <<[submodule |-> "py_to_oqpy", names |-> <<"map_type", "wrap_value">>],
      [submodule |-> "types", names |-> <<"is_qasm_type", "qasm_range">>]>>

\* The submodules the facade imports from.
FacadeSubmodules == {FacadeBody[i].submodule : i \in 1..Len(FacadeBody)}

\* The statements of parameters.py: its two from-imports and the class statement.
ParametersBody ==
    <<[kind |-> "from", module |-> FreeParameterModule, names |-> <<"FreeParameter">>],
      [kind |-> "from", module |-> FacadeModule, names |-> <<"FloatVar", "IntVar">>],
      [kind |-> "class", module |-> "", names |-> <<"TypedParameter">>]>>

\* The names a from-import on the facade may ask for in the model.
RequestNames ==
    {"map_type", "wrap_value", "is_qasm_type", "qasm_range",
     "FloatVar", "IntVar", "types", "py_to_oqpy"}

Range(seq) == {seq[i] : i \in 1..Len(seq)}

SeqsUpTo(S, n) == UNION {[1..k -> S] : k \in 1..n}

FacadeLoaded == facadePc > Len(FacadeBody)

\* What free_parameter.py binds, as far as parameters.py asks.
FreeParameterExports == {"FreeParameter"}

\* `from <package> import n1, n2, ...` against a loaded package whose namespace
\* is ns: each name is looked up as an attribute, then as a submodule; the first
\* name that is neither raises ImportError.
FromImport(ns, submodules, names) ==
    LET missing == {i \in 1..Len(names) : names[i] \notin ns \cup submodules}
    IN  IF missing = {}
        THEN [status |-> "ok", name |-> ""]
        ELSE [status |-> "ImportError",
              name |-> names[CHOOSE i \in missing : \A j \in missing : i <= j]]

NoImport == [status |-> "none", name |-> ""]
PendingImport == [status |-> "pending", name |-> ""]

\* The from-import parameters.py is executing, when it is one on the facade.
ParametersAtFacadeImport ==
    /\ paramsState = "loading"
    /\ paramsPc <= Len(ParametersBody)
    /\ ParametersBody[paramsPc].module = FacadeModule

\* Some client module executes `from braket.experimental.autoqasm.types import ...`.
ClientImport(names) ==
    /\ imported.status # "pending"
    /\ paramsState # "loading"
    /\ request' = names
    /\ imported' = PendingImport
    /\ UNCHANGED <<facadeNs, facadePc, paramsNs, paramsPc, paramsState,
                   paramVars, gateVars>>

\* The first import of the facade executes types/__init__.py, one statement at
\* a time: the submodule is bound in the package, then the names taken from it.
FacadeExec ==
    /\ imported.status = "pending" \/ ParametersAtFacadeImport
    /\ ~FacadeLoaded
    /\ facadeNs' = facadeNs \cup {FacadeBody[facadePc].submodule}
                            \cup Range(FacadeBody[facadePc].names)
    /\ facadePc' = facadePc + 1
    /\ UNCHANGED <<paramsNs, paramsPc, paramsState, request, imported,
                   paramVars, gateVars>>

\* The client's from-import looks its names up in the loaded facade.
ClientResolve ==
    /\ imported.status = "pending"
    /\ FacadeLoaded
    /\ imported' = FromImport(facadeNs, FacadeSubmodules, request)
    /\ UNCHANGED <<facadeNs, facadePc, paramsNs, paramsPc, paramsState, request,
                   paramVars, gateVars>>

\* import braket.experimental.autoqasm.parameters (again, after a failure).
LoadParameters ==
    /\ imported.status # "pending"
    /\ paramsState \in {"unloaded", "ImportError"}
    /\ paramsState' = "loading"
    /\ paramsPc' = 1
    /\ paramsNs' = {}
    /\ UNCHANGED <<facadeNs, facadePc, request, imported, paramVars, gateVars>>

\* The outcome of the statement parameters.py is at.
ParametersStatement ==
    LET st == ParametersBody[paramsPc]
    IN  CASE st.kind = "class" -> [status |-> "ok", name |-> ""]
          [] st.module = FacadeModule ->
                FromImport(facadeNs, FacadeSubmodules, st.names)
          [] OTHER -> FromImport(FreeParameterExports, {}, st.names)

\* parameters.py executes its next statement: the names are bound, and after
\* the last one the module is loaded; an ImportError ends the load and the
\* half-built module is dropped.
ParametersExec ==
    /\ paramsState = "loading"
    /\ paramsPc <= Len(ParametersBody)
    /\ ~ParametersAtFacadeImport \/ FacadeLoaded
    /\ IF ParametersStatement.status = "ok"
       THEN /\ paramsNs' = paramsNs \cup Range(ParametersBody[paramsPc].names)
            /\ paramsPc' = paramsPc + 1
            /\ paramsState' =
                  IF paramsPc = Len(ParametersBody) THEN "loaded" ELSE "loading"
       ELSE /\ paramsNs' = {}
            /\ paramsPc' = paramsPc
            /\ paramsState' = "ImportError"
    /\ UNCHANGED <<facadeNs, facadePc, request, imported, paramVars, gateVars>>

NextFacade ==
    \/ \E names \in SeqsUpTo(RequestNames, MaxRequest) : ClientImport(names)
    \/ FacadeExec
    \/ ClientResolve
    \/ LoadParameters
    \/ ParametersExec

InitFacade ==
    /\ facadeNs = {}
    /\ facadePc = 1
    /\ paramsNs = {}
    /\ paramsPc = 1
    /\ paramsState = "unloaded"
    /\ request = <<>>
    /\ imported = NoImport

(***************************************************************************)
(* The program builder behind h, cnot, measure and to_ir                   *)
(***************************************************************************)
Qubits == 0..MaxQubit

h(q) == [gate |-> "h", qubits |-> <<q>>]
cnot(c, t) == [gate |-> "cnot", qubits |-> <<c, t>>]
measure(q) == [gate |-> "measure", qubits |-> <<q>>]

\* The body of the bell_state_program fixture: a Hadamard, then a controlled-not.
BellStateCalls == <<h(0), cnot(0, 1)>>

\* test_bell_state_prep: expected
BellStateExpected ==
    "OPENQASM 3.0;\nqubit[2] __qubits__;\nh __qubits__[0];\ncnot __qubits__[0], __qubits__[1];"

\* test_bell_with_measure: h(0); cnot(0, 1); measure(0)
BellWithMeasureCalls == <<h(0), cnot(0, 1), measure(0)>>

\* test_bell_with_measure: expected
BellWithMeasureExpected ==
    "OPENQASM 3.0;\nh __qubits__[0];\ncnot __qubits__[0], __qubits__[1];\nbit __bit_0__;\n__bit_0__ = measure __qubits__[0];"

Header == "OPENQASM 3.0;"

\* A virtual qubit as the serializer writes it.
QubitRef(q) == "__qubits__[" \o ToString(q) \o "]"

\* Mutant: the auto-allocated result variables are numbered from 1.
BitNameFromOne(n) == "__bit_" \o ToString(n + 1) \o "__"

\* The n-th auto-allocated measurement result variable, counting from 0.
BitName(n) == "__bit_" \o ToString(n) \o "__"

\* The statement of a gate invocation.
GateStmt(c) ==
    IF c.gate = "h"
    THEN "h " \o QubitRef(c.qubits[1]) \o ";"
    ELSE "cnot " \o QubitRef(c.qubits[1]) \o ", " \o QubitRef(c.qubits[2]) \o ";"

\* The statements of a measurement whose result no variable was declared for:
\* the declaration of a fresh bit, then the assignment to it.
MeasureStmts(c, n) ==
    <<"bit " \o BitName(n) \o ";",
      BitName(n) \o " = measure " \o QubitRef(c.qubits[1]) \o ";">>

\* Mutant: a new statement is put in front of the program.
EmitInFront(program, new) == new \o program

\* A statement is appended to the program being built.
Emit(program, new) == program \o new

\* The size of the register: one more than the highest virtual qubit used.
NumQubits(cs) ==
    LET used == UNION {{cs[i].qubits[j] : j \in 1..Len(cs[i].qubits)} : i \in 1..Len(cs)}
    IN  IF used = {} THEN 0 ELSE 1 + CHOOSE q \in used : \A r \in used : r <= q

\* The register declaration a converted function's program starts with.
QubitDeclaration(cs) ==
    IF NumQubits(cs) = 0
    THEN <<>>
    ELSE <<"qubit[" \o ToString(NumQubits(cs)) \o "] __qubits__;">>

RECURSIVE Join(_)
\* "\n".join(lines)
Join(lines) ==
    IF Len(lines) = 0 THEN ""
    ELSE IF Len(lines) = 1 THEN lines[1]
    ELSE lines[1] \o "\n" \o Join(Tail(lines))

\* Program.to_ir(): the header, the register declaration when the program was
\* built from a converted function, then the statements in emission order.
ToIrLines ==
    <<Header>> \o (IF mode = "function" THEN QubitDeclaration(calls) ELSE <<>>) \o stmts

Building == mode # "none" /\ ir = <<>> /\ Len(calls) < MaxGates

\* Calling a converted function (the bell_state_program fixture's way).
CallFunction ==
    /\ mode = "none"
    /\ mode' = "function"
    /\ UNCHANGED <<calls, stmts, bitCount, ir, paramVars, facadeVars>>

\* with aq.build_program() as program_conversion_context
BuildProgram ==
    /\ mode = "none"
    /\ mode' = "context"
    /\ UNCHANGED <<calls, stmts, bitCount, ir, paramVars, facadeVars>>

\* h(q)
H(q) ==
    /\ Building
    /\ calls' = Append(calls, h(q))
    /\ stmts' = Emit(stmts, <<GateStmt(h(q))>>)
    /\ UNCHANGED <<mode, bitCount, ir, paramVars, facadeVars>>

\* cnot(c, t)
Cnot(c, t) ==
    /\ Building
    /\ c # t
    /\ calls' = Append(calls, cnot(c, t))
    /\ stmts' = Emit(stmts, <<GateStmt(cnot(c, t))>>)
    /\ UNCHANGED <<mode, bitCount, ir, paramVars, facadeVars>>

\* measure(q), its result not stored in a declared variable
Measure(q) ==
    /\ Building
    /\ calls' = Append(calls, measure(q))
    /\ stmts' = Emit(stmts, MeasureStmts(measure(q), bitCount))
    /\ bitCount' = bitCount + 1
    /\ UNCHANGED <<mode, ir, paramVars, facadeVars>>

\* program.to_ir()
ToIr ==
    /\ mode # "none"
    /\ ir = <<>>
    /\ ir' = ToIrLines
    /\ UNCHANGED <<mode, calls, stmts, bitCount, paramVars, facadeVars>>

NextGates ==
    \/ CallFunction
    \/ BuildProgram
    \/ \E q \in Qubits : H(q)
    \/ \E c \in Qubits, t \in Qubits : Cnot(c, t)
    \/ \E q \in Qubits : Measure(q)
    \/ ToIr

InitGates ==
    /\ mode = "none"
    /\ calls = <<>>
    /\ stmts = <<>>
    /\ bitCount = 0
    /\ ir = <<>>

Init == InitParams /\ InitFacade /\ InitGates

Spec == Init /\ [][NextParams]_vars

SpecFacade == Init /\ [][NextFacade]_vars

SpecGates == Init /\ [][NextGates]_vars

(***************************************************************************)
(* Claims about TypedParameter, checked under Spec                         *)
(***************************************************************************)
\* The accepted set, as the specification lists it.
AcceptedTypes == {float, int, FloatVar, IntVar}

\* The constructor call described by `call` has run to its end.
Constructed == frame = NoFrame /\ result.op = "construct"

\* C1: for every accepted type and every name, construction succeeds and the
\* .type accessor of the resulting object returns exactly the type passed in.
C1_AcceptedTypeKept ==
    (Constructed /\ call.arg \in AcceptedTypes) =>
        /\ result.kind = "returned"
        /\ ReadProperty(heap[result.ref], "type", "_type") =
              [op |-> "get", kind |-> "read", attr |-> "type", value |-> call.arg]

C1_Witness ==
    /\ Constructed
    /\ result.kind = "returned"
    /\ call.arg = IntVar
    /\ call.name = <<952>>

\* C2: for every type value outside the accepted set (a string, bool, complex,
\* None), construction fails with ValueError and the caller gets no object.
C2_UnsupportedRejected ==
    (call.arg \in TypeValues \ AcceptedTypes) =>
        /\ Len(heap) = call.nobj
        /\ Constructed =>
              /\ result.kind = "raised"
              /\ result.exc = "ValueError"

C2_Witness ==
    /\ Constructed
    /\ result.kind = "raised"
    /\ call.arg = Class("bool")
    /\ Len(heap) = 1

\* C3: the type of a constructed object is always in the accepted set, and no
\* operation on constructed objects (reading .type or .name, assigning .type,
\* constructing further objects) changes an object once it was returned.
C3_TypeImmutable ==
    /\ [](\A i \in 1..Len(heap) :
             HasAttr(heap[i], "_type") /\ type(heap[i]) \in AcceptedTypes)
    /\ [][\A i \in 1..Len(heap) : heap'[i] = heap[i]]_vars

C3_Witness ==
    /\ result.op = "set"
    /\ Len(heap) = MaxObjects
    /\ type(heap[1]) = float
    /\ type(heap[2]) = IntVar

\* C4: with the type argument omitted, construction succeeds, .type is float,
\* and the object equals the one TypedParameter(name, float) yields.
C4_DefaultIsFloat ==
    (Constructed /\ call.arg = Omitted) =>
        /\ result.kind = "returned"
        /\ ReadProperty(heap[result.ref], "type", "_type").value = float
        /\ heap[result.ref] =
              [cls |-> call.cls,
               dict |-> [a \in {"_name", "_type"} |->
                            IF a = "_name" THEN call.name ELSE float]]

C4_Witness ==
    /\ Constructed
    /\ call.arg = Omitted
    /\ result.kind = "returned"

Includes(msg, part) == \E i \in 1..Len(msg) : msg[i] = part

\* C5: whenever construction is rejected, the message includes the rejected
\* type value and the name of the runtime class of the object being built.
C5_MessageNamesTypeAndClass ==
    (result.op = "construct" /\ result.kind = "raised") =>
        /\ Includes(result.msg, call.cls)
        /\ Includes(result.msg, Str(call.arg))

C5_Witness ==
    /\ result.op = "construct"
    /\ result.kind = "raised"
    /\ call.cls = "AngleParameter"
    /\ call.arg = None

IsPrefix(s, t) == Len(s) <= Len(t) /\ \A i \in 1..Len(s) : s[i] = t[i]

\* C6: construction validates the type, then initializes the base class with
\* the name, then sets the type field; ValueError is raised only by the
\* validation step of a construction, never by a read; and when validation
\* fails the object has neither been base-initialized nor given its type.
C6_ValidateThenSuperThenType ==
    /\ IsPrefix(trace, <<"validate", "super_init", "set_type">>)
    /\ (result.op = "construct" /\ result.kind = "returned") =>
          trace = <<"validate", "super_init", "set_type">>
    /\ (result.kind = "raised" /\ result.exc = "ValueError") =>
          /\ result.op = "construct"
          /\ trace = <<"validate">>
    /\ frame.status = "raised" =>
          /\ result.kind = "raised"
          /\ ~HasAttr(frame.self, "_name")
          /\ ~HasAttr(frame.self, "_type")
          /\ Len(heap) = call.nobj

C6_Witness ==
    /\ frame.status = "raised"
    /\ Len(heap) = 1
    /\ call.arg = Class("complex")

\* C9: for every name, non-ASCII ones included, and every accepted type, the
\* constructed object's .name is the name passed in, unmodified.
C9_NameKept ==
    (Constructed /\ result.kind = "returned") =>
        ReadProperty(heap[result.ref], "name", "_name") =
           [op |-> "get", kind |-> "read", attr |-> "name", value |-> call.name]

C9_Witness ==
    /\ Constructed
    /\ result.kind = "returned"
    /\ call.name = <<952>>
    /\ call.arg = FloatVar

(***************************************************************************)
(* Claim about module loading, checked under SpecFacade                    *)
(***************************************************************************)
\* The names parameters.py imports from the types facade.
ParametersFacadeImports ==
    UNION {Range(ParametersBody[i].names) :
              i \in {j \in 1..Len(ParametersBody) :
                        ParametersBody[j].module = FacadeModule}}

\* C10: every name parameters.py imports from the types facade is a name the
\* loaded facade binds, so loading parameters.py does not end in ImportError.
C10_FacadeExposesImports ==
    /\ (ParametersAtFacadeImport /\ FacadeLoaded) =>
          ParametersFacadeImports \subseteq facadeNs
    /\ paramsState # "ImportError"

(***************************************************************************)
(* Claims about serialization, checked under SpecGates                     *)
(***************************************************************************)
Serialized == ir # <<>>

OnlyGates(cs) == \A k \in 1..Len(cs) : cs[k].gate # "measure"

\* C7: a converted function applying h to qubit 0 and cnot to qubits 0 and 1
\* serializes to exactly the four lines of test_bell_state_prep; and in every
\* such program of gates the header comes first, the register declaration
\* second, and the gate statements follow in invocation order.
C7_BellStatePrep ==
    /\ (Serialized /\ mode = "function" /\ calls = BellStateCalls) =>
          Join(ir) = BellStateExpected
    /\ (Serialized /\ mode = "function" /\ calls # <<>> /\ OnlyGates(calls)) =>
          /\ Len(ir) = 2 + Len(calls)
          /\ ir[1] = Header
          /\ ir[2] = "qubit[" \o ToString(NumQubits(calls)) \o "] __qubits__;"
          /\ \A k \in 1..Len(calls) : ir[2 + k] = GateStmt(calls[k])

C7_Witness ==
    /\ Serialized
    /\ mode = "function"
    /\ calls = BellStateCalls

\* The number of measure invocations among the first k calls.
MeasuresBefore(cs, k) == Cardinality({j \in 1..k : cs[j].gate = "measure"})

\* The line of the serialization where the k-th call's statements start, in a
\* program without a register declaration.
FirstLineOf(cs, k) == 2 + (k - 1) + MeasuresBefore(cs, k - 1)

\* C8: in a build_program context, h(0), cnot(0, 1), measure(0) serialize to
\* exactly the five lines of test_bell_with_measure; and in every such program
\* statements follow invocation order, the n-th auto-allocated result (from 0)
\* is declared as __bit_<n>__, and the declaration immediately precedes the
\* assignment of the measurement to it.
C8_BellWithMeasure ==
    /\ (Serialized /\ mode = "context" /\ calls = BellWithMeasureCalls) =>
          Join(ir) = BellWithMeasureExpected
    /\ (Serialized /\ mode = "context") =>
          /\ ir[1] = Header
          /\ Len(ir) = 1 + Len(calls) + MeasuresBefore(calls, Len(calls))
          /\ \A k \in 1..Len(calls) :
                LET p == FirstLineOf(calls, k)
                    n == MeasuresBefore(calls, k - 1)
                IN  IF calls[k].gate = "measure"
                    THEN /\ ir[p] = "bit __bit_" \o ToString(n) \o "__;"
                         /\ ir[p + 1] = "__bit_" \o ToString(n) \o "__ = measure "
                                           \o QubitRef(calls[k].qubits[1]) \o ";"
                    ELSE ir[p] = GateStmt(calls[k])

C8_Witness ==
    /\ Serialized
    /\ mode = "context"
    /\ calls = BellWithMeasureCalls
====
